---- MODULE Spec2Model ----
(***************************************************************************)
(* Model of the web client's session handling: the two axios wrappers      *)
(* (src/src/utils/api.js, src/src/utils/request.js), the auth operations   *)
(* built on the first, the login form (src/unnamed/part_000, LoginPage)    *)
(* and the application shell (src/src/App.jsx).                            *)
(*                                                                         *)
(* JavaScript values are tagged records.  A JavaScript string is a         *)
(* sequence of text chunks; decimal numerals are one chunk per digit, so   *)
(* that Number -> String -> parseInt is computed, not assumed.             *)
(***************************************************************************)
EXTENDS Integers, Sequences, FiniteSets, Bags, TLC

(* ------------------------------ bounds -------------------------------- *)

\* number of clock advances explored
MaxTicks == 2
\* number of requests that may be in flight at once
MaxInflight == 1

(* --------------------------- JavaScript values ------------------------ *)

Undefined == [t |-> "undefined"]
Null == [t |-> "null"]
NaN == [t |-> "NaN"]
Str(s) == [t |-> "string", s |-> s]
Num(n) == [t |-> "number", n |-> n]
Bool(b) == [t |-> "boolean", b |-> b]

\* ToBoolean: what `if (v)`, `!v`, `a || b` and `a && b` test
Truthy(v) ==
  CASE v.t = "undefined" -> FALSE
    [] v.t = "null" -> FALSE
    [] v.t = "NaN" -> FALSE
    [] v.t = "string" -> v.s # <<>>
    [] v.t = "number" -> v.n # 0
    [] v.t = "boolean" -> v.b
    [] OTHER -> TRUE

\* a || b
Or(a, b) == IF Truthy(a) THEN a ELSE b

\* o?.f and o.f on a value that is not null or undefined
Prop(o, f) == IF o.t = "object" /\ f \in DOMAIN o THEN o[f] ELSE Undefined

\* o.f throws a TypeError exactly when o is null or undefined
Nullish(o) == o.t \in {"undefined", "null"}

DigitChars == <<"0", "1", "2", "3", "4", "5", "6", "7", "8", "9">>

IsDigit(c) == \E i \in 1..10 : DigitChars[i] = c

DigitValue(c) == (CHOOSE i \in 1..10 : DigitChars[i] = c) - 1

RECURSIVE ToDigits(_)
\* Number.prototype.toString() of a non-negative integer
ToDigits(n) ==
  IF n < 10 THEN <<DigitChars[n + 1]>>
  ELSE Append(ToDigits(n \div 10), DigitChars[(n % 10) + 1])

\* String(v), the conversion localStorage.setItem and template literals apply
ToStr(v) ==
  CASE v.t = "undefined" -> <<"undefined">>
    [] v.t = "null" -> <<"null">>
    [] v.t = "NaN" -> <<"NaN">>
    [] v.t = "string" -> v.s
    [] v.t = "number" -> ToDigits(v.n)
    [] v.t = "boolean" -> IF v.b THEN <<"true">> ELSE <<"false">>
    [] OTHER -> <<"[object Object]">>

RECURSIVE DigitPrefixLen(_, _)
DigitPrefixLen(s, i) ==
  IF i <= Len(s) /\ IsDigit(s[i]) THEN DigitPrefixLen(s, i + 1) ELSE i - 1

RECURSIVE DigitsValue(_, _)
DigitsValue(s, k) ==
  IF k = 0 THEN 0 ELSE DigitsValue(s, k - 1) * 10 + DigitValue(s[k])

\* parseInt(s): the value of the longest decimal prefix, NaN when there is none
ParseInt(v) ==
  LET s == ToStr(v)
      k == DigitPrefixLen(s, 1)
  IN IF k = 0 THEN NaN ELSE Num(DigitsValue(s, k))

\* a > b on numbers; any comparison with NaN is false
Greater(a, b) == a.t = "number" /\ b.t = "number" /\ a.n > b.n

JsonOpen == <<"{", "\"", "id", "\"", ":">>
JsonClose == <<"}">>

\* JSON.stringify: undefined stays undefined, null gives "null", {id: n} its text
JSONStringify(v) ==
  CASE v.t = "undefined" -> Undefined
    [] v.t = "null" -> Str(<<"null">>)
    [] v.t = "object" -> Str(JsonOpen \o ToStr(v.id) \o JsonClose)
    [] OTHER -> Str(ToStr(v))

\* JSON.parse: [ok |-> FALSE] stands for the SyntaxError it throws
JSONParse(v) ==
  LET s == v.s
      n == Len(s) - Len(JsonOpen) - Len(JsonClose)
  IN IF s = <<"null">> THEN [ok |-> TRUE, value |-> Null]
     ELSE IF /\ n >= 1
             /\ SubSeq(s, 1, Len(JsonOpen)) = JsonOpen
             /\ SubSeq(s, Len(s), Len(s)) = JsonClose
             /\ DigitPrefixLen(SubSeq(s, Len(JsonOpen) + 1, Len(s) - 1), 1) = n
          THEN [ok |-> TRUE,
                value |-> [t |-> "object",
                           id |-> Num(DigitsValue(SubSeq(s, Len(JsonOpen) + 1, Len(s) - 1), n))]]
          ELSE [ok |-> FALSE, value |-> Undefined]

(* ------------------------------ localStorage -------------------------- *)

Keys == {"userToken", "tokenExpiration", "userInfo", "token"}

EmptyStorage == [k \in Keys |-> Null]

getItem(ls, k) == ls[k]
setItem(ls, k, v) == [ls EXCEPT ![k] = Str(ToStr(v))]
removeItem(ls, k) == [ls EXCEPT ![k] = Null]
clear(ls) == EmptyStorage

(* ------------------------------ requests ------------------------------ *)

Obj(code, success, message, data) ==
  [t |-> "object", code |-> code, success |-> success, message |-> message, data |-> data]

\* the payload of a login response: {token, userInfo}
Payload(token, userInfo) == [t |-> "object", token |-> token, userInfo |-> userInfo]

UserObject == [t |-> "object", id |-> Num(1)]

\* the request config axios hands to the request interceptor
Config(client, op, method, url) ==
  [client |-> client, op |-> op, method |-> method, url |-> url,
   headers |-> [Authorization |-> Undefined, XPlatform |-> Undefined,
                XClientVersion |-> Undefined],
   params |-> [_t |-> Undefined]]

\* api.interceptors.request: bearer token from 'userToken', platform headers
ApiRequestInterceptor(ls, config) ==
  LET token == getItem(ls, "userToken")
      auth == IF Truthy(token) THEN Str(<<"Bearer ">> \o ToStr(token))
              ELSE config.headers.Authorization
  IN [config EXCEPT !.headers = [Authorization |-> auth,
                                 XPlatform |-> Str(<<"web">>),
                                 XClientVersion |-> Str(<<"1.0.0">>)]]

\* request.interceptors.request: bearer token from 'token', _t on GET
RequestRequestInterceptor(ls, time, config) ==
  LET token == getItem(ls, "token")
      auth == IF Truthy(token) THEN Str(<<"Bearer ">> \o ToStr(token))
              ELSE config.headers.Authorization
      params == IF config.method = "get" THEN [config.params EXCEPT !._t = Num(time)]
                ELSE config.params
  IN [config EXCEPT !.headers.Authorization = auth, !.params = params]

\* what goes on the wire for a GET: url and query string
QuerySignature(call) == <<call.client, call.method, call.url, call.params>>

(* ------------------------------ responses ----------------------------- *)

Fulfilled(v) == [settled |-> "fulfilled", value |-> v]
Rejected(v) == [settled |-> "rejected", value |-> v]

\* an object literal {success: false, message, code}
Failure(message, code) ==
  [t |-> "object", success |-> Bool(FALSE), message |-> message, code |-> code]

\* new Error(message)
Error(message) == [t |-> "object", name |-> Str(<<"Error">>), message |-> message]

\* the TypeError of reading a property of null or undefined
TypeError == [t |-> "object", name |-> Str(<<"TypeError">>),
              message |-> Str(<<"Cannot read properties of null">>)]

\* what a handler shows and where it navigates: alert(), confirm(), location.reload(),
\* location.href = ..., and the login form's setError text
NoEffects == [alert |-> FALSE, confirm |-> FALSE, reload |-> FALSE, href |-> Undefined,
              error |-> Undefined]

\* api.interceptors.response, success handler: the body, whatever it reports
ApiResponseSuccess(ls, response) ==
  [ls |-> ls, settlement |-> Fulfilled(response.data), effects |-> NoEffects]

\* api.interceptors.response, error handler; retry is the answer to window.confirm
ApiResponseError(ls, error, retry) ==
  IF ~Truthy(error.response)
  THEN [ls |-> ls,
        settlement |-> Rejected(Failure(Str(<<"network connection failed">>),
                                        Str(<<"NETWORK_ERROR">>))),
        effects |-> [NoEffects EXCEPT !.confirm = TRUE, !.reload = retry]]
  ELSE
    LET status == error.response.status
        data == error.response.data
    IN CASE status = 401 ->
              [ls |-> removeItem(removeItem(ls, "userToken"), "userInfo"),
               settlement |-> Rejected(Failure(Str(<<"login expired">>),
                                               Str(<<"UNAUTHORIZED">>))),
               effects |-> [NoEffects EXCEPT !.alert = TRUE, !.reload = TRUE]]
         [] status = 403 ->
              [ls |-> ls,
               settlement |-> Rejected(Failure(Str(<<"no permission">>),
                                               Str(<<"FORBIDDEN">>))),
               effects |-> [NoEffects EXCEPT !.alert = TRUE]]
         [] status = 404 ->
              [ls |-> ls,
               settlement |-> Rejected(Failure(Str(<<"resource does not exist">>),
                                               Str(<<"NOT_FOUND">>))),
               effects |-> NoEffects]
         [] status = 500 ->
              [ls |-> ls,
               settlement |-> Rejected(Failure(Str(<<"internal server error">>),
                                               Str(<<"SERVER_ERROR">>))),
               effects |-> [NoEffects EXCEPT !.alert = TRUE]]
         [] OTHER ->
              [ls |-> ls,
               settlement |-> Rejected(Failure(
                   Or(Prop(data, "message"), Str(<<"request failed, retry">>)),
                   Or(Prop(data, "code"), Str(<<"UNKNOWN_ERROR">>)))),
               effects |-> NoEffects]

\* request.interceptors.response, success handler
RequestResponseSuccess(ls, response) ==
  LET data == response.data
  IN IF Nullish(data)
     THEN [ls |-> ls, settlement |-> Rejected(TypeError), effects |-> NoEffects]
     ELSE IF Prop(data, "code") = Num(200) \/ Truthy(Prop(data, "success"))
     THEN [ls |-> ls, settlement |-> Fulfilled(Or(Prop(data, "data"), data)),
           effects |-> NoEffects]
     ELSE [ls |-> ls,
           settlement |-> Rejected(Error(Or(Prop(data, "message"),
                                            Str(<<"request failed">>)))),
           effects |-> NoEffects]

\* request.interceptors.response, error handler
RequestResponseError(ls, error) ==
  IF Truthy(error.response)
  THEN
    LET status == error.response.status
        data == error.response.data
    IN CASE status = 401 ->
              [ls |-> removeItem(ls, "token"),
               settlement |-> Rejected(Error(Str(<<"unauthorized, log in again">>))),
               effects |-> [NoEffects EXCEPT !.href = Str(<<"/login">>)]]
         [] status = 403 ->
              [ls |-> ls, settlement |-> Rejected(Error(Str(<<"access denied">>))),
               effects |-> NoEffects]
         [] status = 404 ->
              [ls |-> ls,
               settlement |-> Rejected(Error(Str(<<"request address does not exist">>))),
               effects |-> NoEffects]
         [] status = 500 ->
              [ls |-> ls,
               settlement |-> Rejected(Error(Str(<<"internal server error">>))),
               effects |-> NoEffects]
         [] OTHER ->
              [ls |-> ls,
               settlement |-> Rejected(Error(
                   Or(Prop(data, "message"),
                      Str(<<"request failed (">> \o ToDigits(status) \o <<")">>)))),
               effects |-> NoEffects]
  ELSE IF error.code = Str(<<"ECONNABORTED">>)
  THEN [ls |-> ls, settlement |-> Rejected(Error(Str(<<"request timed out">>))),
        effects |-> NoEffects]
  ELSE [ls |-> ls, settlement |-> Rejected(Error(Str(<<"network error">>))),
        effects |-> NoEffects]

(* --------------------------- auth operations -------------------------- *)

\* the lifetime counted in seconds instead of milliseconds
TokenLifetimeSeconds == 24 * 60 * 60

\* 24 hours in milliseconds
TokenLifetime == 24 * 60 * 60 * 1000

\* a catch block that reports the error as a success
CaughtAsSuccess(error, fallback) ==
  [t |-> "object", success |-> Bool(TRUE),
   message |-> Or(Prop(error, "message"), fallback), code |-> Prop(error, "code")]

\* the object a catch block returns: {success: false, message, code}
Caught(error, fallback) ==
  [t |-> "object", success |-> Bool(FALSE),
   message |-> Or(Prop(error, "message"), fallback), code |-> Prop(error, "code")]

\* the object the try block returns: {success: true, data, message}
Returned(response, fallback) ==
  [t |-> "object", success |-> Bool(TRUE), data |-> Prop(response, "data"),
   message |-> Or(Prop(response, "message"), fallback)]

\* registerUser, sendVerificationCode, resetPassword and the tail of getUserInfo:
\* what the operation returns once api.post / api.get has settled
AuthResult(settlement, okMessage, failMessage) ==
  IF settlement.settled = "rejected" THEN Caught(settlement.value, failMessage)
  ELSE IF Nullish(settlement.value) THEN Caught(TypeError, failMessage)
  ELSE Returned(settlement.value, okMessage)

\* loginUser once api.post has settled, at clock reading time
LoginUserResult(ls, time, settlement) ==
  IF settlement.settled = "rejected"
  THEN [ls |-> ls, ret |-> Caught(settlement.value, Str(<<"login failed, retry">>))]
  ELSE IF Nullish(settlement.value)
  THEN [ls |-> ls, ret |-> Caught(TypeError, Str(<<"login failed, retry">>))]
  ELSE
    LET response == settlement.value
        expirationTime == Num(time + TokenLifetime)
    IN [ls |-> IF Truthy(Prop(Prop(response, "data"), "token"))
               THEN setItem(ls, "tokenExpiration", Str(ToStr(expirationTime)))
               ELSE ls,
        ret |-> Returned(response, Str(<<"login succeeded">>))]

\* the expiry test with >= in place of >
ExpiredAtEquality(ls, time) ==
  LET expirationTime == getItem(ls, "tokenExpiration")
  IN /\ Truthy(expirationTime)
     /\ \/ Greater(Num(time), ParseInt(expirationTime))
        \/ Num(time) = ParseInt(expirationTime)

\* the expiry test with its operands swapped
ExpiredReversed(ls, time) ==
  LET expirationTime == getItem(ls, "tokenExpiration")
  IN Truthy(expirationTime) /\ Greater(ParseInt(expirationTime), Num(time))

\* the local expiry test of getUserInfo and checkLoginStatus
Expired(ls, time) ==
  LET expirationTime == getItem(ls, "tokenExpiration")
  IN Truthy(expirationTime) /\ Greater(Num(time), ParseInt(expirationTime))

\* getUserInfo's expiry check: the Error it throws lands in its own catch block
GetUserInfoExpiredResult ==
  Caught(Error(Str(<<"Token expired">>)), Str(<<"get user info failed">>))

\* checkLoginStatus clearing what the 401 handler clears: the expiration stays
checkLoginStatusKeepsExpiration(ls, time) ==
  IF ~Truthy(getItem(ls, "userToken")) THEN [ret |-> FALSE, ls |-> ls, expired |-> FALSE]
  ELSE IF Expired(ls, time)
  THEN [ret |-> FALSE, ls |-> removeItem(removeItem(ls, "userToken"), "userInfo"),
        expired |-> TRUE]
  ELSE [ret |-> TRUE, ls |-> ls, expired |-> FALSE]

\* checkLoginStatus at clock reading time: the boolean and the storage it leaves
\* (expired: the branch that found the token expired was taken)
checkLoginStatus(ls, time) ==
  IF ~Truthy(getItem(ls, "userToken")) THEN [ret |-> FALSE, ls |-> ls, expired |-> FALSE]
  ELSE IF Expired(ls, time)
  THEN [ret |-> FALSE,
        ls |-> removeItem(removeItem(removeItem(ls, "userToken"), "userInfo"),
                          "tokenExpiration"),
        expired |-> TRUE]
  ELSE [ret |-> TRUE, ls |-> ls, expired |-> FALSE]

(* ------------------------------ login form ---------------------------- *)

\* /^1[3-9]\d{9}$/
PhoneValid(s) ==
  /\ Len(s) = 11
  /\ s[1] = "1"
  /\ s[2] \in {"3", "4", "5", "6", "7", "8", "9"}
  /\ \A i \in 3..11 : IsDigit(s[i])

NotSpaceOrAt(c) == c \notin {" ", "@"}

\* /^[^\s@]+@[^\s@]+\.[^\s@]+$/
EmailValid(s) ==
  \E i \in 2..Len(s) : \E j \in (i + 2)..(Len(s) - 1) :
     /\ s[i] = "@"
     /\ s[j] = "."
     /\ \A k \in (1..Len(s)) \ {i} : NotSpaceOrAt(s[k])

\* handleLogin's three validation messages, or Undefined when the form passes
ValidationError(loginMethod, phone, email, password) ==
  LET account == IF loginMethod = "phone" THEN phone ELSE email
  IN IF account = <<>> \/ password = <<>> THEN Str(<<"fill in the login form">>)
     ELSE IF loginMethod = "phone" /\ ~PhoneValid(phone)
     THEN Str(<<"phone number format is wrong">>)
     ELSE IF loginMethod = "email" /\ ~EmailValid(email)
     THEN Str(<<"email format is wrong">>)
     ELSE Undefined

\* a handleLogin that stores whatever loginUser returned, success or not
HandleLoginResultUnchecked(ls, result) ==
  IF Nullish(Prop(result, "data"))
  THEN [ls |-> setItem(setItem(ls, "userToken", Undefined), "userInfo", Undefined),
        error |-> Or(result.message, Str(<<"login failed, retry">>)), reload |-> FALSE]
  ELSE [ls |-> setItem(setItem(ls, "userToken", Prop(result.data, "token")),
                       "userInfo", JSONStringify(Prop(result.data, "userInfo"))),
        error |-> Str(<<>>), reload |-> TRUE]

\* handleLogin after loginUser has returned result: storage, error text, reload
HandleLoginResult(ls, result) ==
  IF Truthy(result.success)
  THEN IF Nullish(result.data)
       THEN [ls |-> ls, error |-> Str(<<"network error, check the connection">>),
             reload |-> FALSE]
       ELSE [ls |-> setItem(setItem(ls, "userToken", Prop(result.data, "token")),
                            "userInfo", JSONStringify(Prop(result.data, "userInfo"))),
             error |-> Str(<<>>), reload |-> TRUE]
  ELSE [ls |-> ls, error |-> Or(result.message, Str(<<"login failed, retry">>)),
        reload |-> FALSE]

(* ------------------------------ inputs -------------------------------- *)

\* the (code, success) pairs a response body may carry: request.js reads both,
\* api.js reads neither
Flags(client) ==
  IF client = "request"
  THEN {<<Num(200), Undefined>>, <<Undefined, Bool(TRUE)>>, <<Num(500), Bool(FALSE)>>}
  ELSE {<<Num(200), Undefined>>, <<Num(500), Bool(FALSE)>>}

Messages == {Undefined, Str(<<"m1">>)}

Tokens == {Undefined, Str(<<>>), Str(<<"t1">>)}

UserInfos == {Undefined, UserObject}

\* the data field of a login response
LoginDatas == {Undefined} \cup {Payload(tk, ui) : tk \in Tokens, ui \in UserInfos}

\* the data field of any other response
Datas == {Undefined, UserObject}

\* bodies of 2xx responses to a request of config c
Bodies(c) ==
  {Null} \cup {Obj(f[1], f[2], m, d) : f \in Flags(c.client), m \in Messages,
                                       d \in IF c.op = "login" THEN LoginDatas ELSE Datas}

\* bodies of error responses; only a status without a case of its own reads the body
ErrorBodies(status) ==
  IF status \in {401, 403, 404, 500} THEN {Null}
  ELSE {Null, Obj(Undefined, Undefined, Undefined, Undefined),
        Obj(Str(<<"E1">>), Bool(FALSE), Str(<<"m1">>), Undefined)}

ErrorStatuses == {400, 401, 403, 404, 500}

\* what the transport reports for a request of config c
Outcomes(c) ==
  {[kind |-> "response", status |-> 200, data |-> b, code |-> Undefined] : b \in Bodies(c)}
  \cup UNION {{[kind |-> "response", status |-> st, data |-> b,
                code |-> Str(<<"ERR_BAD_REQUEST">>)] : b \in ErrorBodies(st)} :
              st \in ErrorStatuses}
  \cup {[kind |-> "noresponse", status |-> 0, data |-> Undefined, code |-> ec] :
          ec \in {Str(<<"ECONNABORTED">>), Str(<<"ERR_NETWORK">>)}}

Is2xx(o) == o.kind = "response" /\ o.status >= 200 /\ o.status < 300

\* the AxiosError of a failed request
AxiosError(o) ==
  [response |-> IF o.kind = "response"
                THEN [t |-> "object", status |-> o.status, data |-> o.data]
                ELSE Undefined,
   code |-> o.code]

\* a response interceptor that tears the session down on every error
ApiResponseTearingDown(ls, o, retry) ==
  IF Is2xx(o) THEN ApiResponseSuccess(ls, [status |-> o.status, data |-> o.data])
  ELSE [ApiResponseError(ls, AxiosError(o), retry) EXCEPT
          !.ls = removeItem(removeItem(ls, "userToken"), "userInfo")]

\* the response interceptor of the api client on outcome o
ApiResponse(ls, o, retry) ==
  IF Is2xx(o) THEN ApiResponseSuccess(ls, [status |-> o.status, data |-> o.data])
  ELSE ApiResponseError(ls, AxiosError(o), retry)

\* the response interceptor of the request client on outcome o
RequestResponse(ls, o) ==
  IF Is2xx(o) THEN RequestResponseSuccess(ls, [status |-> o.status, data |-> o.data])
  ELSE RequestResponseError(ls, AxiosError(o))

\* what the login form holds when the button is pressed
Form(loginMethod, phone, email, password) ==
  [loginMethod |-> loginMethod, phone |-> phone, email |-> email, password |-> password]

GoodPhone == <<"1", "3", "8", "0", "0", "0", "0", "0", "0", "0", "0">>
BadPhone == <<"1", "2", "8", "0", "0", "0", "0", "0", "0", "0", "0">>
GoodEmail == <<"a", "@", "b", ".", "c">>
BadEmail == <<"a", "@", "b">>

Forms ==
  {Form("phone", GoodPhone, <<>>, <<"p">>), Form("phone", BadPhone, <<>>, <<"p">>),
   Form("phone", <<>>, GoodEmail, <<"p">>), Form("phone", GoodPhone, <<>>, <<>>),
   Form("email", <<>>, GoodEmail, <<"p">>), Form("email", GoodPhone, BadEmail, <<"p">>)}

\* the operations that are one api.post with a fixed url
PostOps == {"register", "sendVerificationCode", "resetPassword"}

PostUrl(op) ==
  CASE op = "register" -> "/user/register"
    [] op = "sendVerificationCode" -> "/sms/send"
    [] op = "resetPassword" -> "/user/reset-password"

OkMessage(op) ==
  CASE op = "register" -> Str(<<"registered">>)
    [] op = "sendVerificationCode" -> Str(<<"verification code sent">>)
    [] op = "resetPassword" -> Str(<<"password reset">>)
    [] op = "getUserInfo" -> Str(<<"got user info">>)

FailMessage(op) ==
  CASE op = "register" -> Str(<<"register failed, retry">>)
    [] op = "sendVerificationCode" -> Str(<<"sending the verification code failed">>)
    [] op = "resetPassword" -> Str(<<"password reset failed">>)
    [] op = "getUserInfo" -> Str(<<"get user info failed">>)

\* get, post, put, del, upload of request.js
RequestMethods == {"get", "post", "put", "delete", "upload"}

HttpMethod(m) == IF m = "upload" THEN "post" ELSE m

(* ------------------------------ state --------------------------------- *)

VARIABLES
  now,           \* Date.now(), epoch milliseconds
  ticks,         \* clock advances so far
  localStorage,  \* key -> Null or a string
  inflight,      \* bag of requests sent and not yet answered
  app,           \* App's React state
  login,         \* LoginPage's React state
  last           \* the latest step: operation, request sent, outcome, what the caller
                 \* got, and the alerts and navigation it caused

vars == <<now, ticks, localStorage, inflight, app, login, last>>

NoCall == [client |-> "none"]
NoOutcome == [kind |-> "none"]
\* the step found the stored expiration passed
ExpiryDetected == [kind |-> "expired"]
Detection(expired) == IF expired THEN ExpiryDetected ELSE NoOutcome
NoResult == [settled |-> "none"]

Step(op, call, outcome, result, effects) ==
  [op |-> op, call |-> call, outcome |-> outcome, result |-> result, effects |-> effects]

\* useState(false), useState(null), useState(true)
AppMounted == [isLoggedIn |-> FALSE, userInfo |-> Null, loading |-> TRUE]

LoginMounted == [loading |-> FALSE]

Init ==
  /\ now = 0
  /\ ticks = 0
  /\ localStorage = EmptyStorage
  /\ inflight = EmptyBag
  /\ app = AppMounted
  /\ login = LoginMounted
  /\ last = Step("load", NoCall, NoOutcome, NoResult, NoEffects)

Send(call) == inflight (+) SetToBag({call})
\* an answered request that stays pending, as a retry would leave it
AnswerRetrying(call) == inflight
Answer(call) == inflight (-) SetToBag({call})
CanSend == BagCardinality(inflight) < MaxInflight

LoginViewShown == ~app.loading /\ ~app.isLoggedIn
DashboardShown == ~app.loading /\ app.isLoggedIn

(* ------------------------------ the clock ----------------------------- *)

\* time passes: a millisecond, or a whole token lifetime
Tick ==
  /\ ticks < MaxTicks
  /\ \E d \in {1, TokenLifetime} : now' = now + d
  /\ ticks' = ticks + 1
  /\ last' = Step("tick", NoCall, NoOutcome, NoResult, NoEffects)
  /\ UNCHANGED <<localStorage, inflight, app, login>>

(* --------------------------- application shell ------------------------ *)

\* the page is (re)loaded: every component is mounted afresh, pending requests die
PageLoad ==
  /\ inflight' = EmptyBag
  /\ app' = AppMounted
  /\ login' = LoginMounted
  /\ last' = Step("load", NoCall, NoOutcome, NoResult, NoEffects)
  /\ UNCHANGED <<now, ticks, localStorage>>

\* the three removeItem calls of handleLogout and of initializeApp's else branch
LoggedOutStorage(ls) ==
  removeItem(removeItem(removeItem(ls, "userToken"), "userInfo"), "tokenExpiration")

\* initializeApp without its clean-up: neither the else branch nor the catch block
\* removes anything
InitializeAppResultKeeping(ls, time, a) ==
  LET status == checkLoginStatus(ls, time)
      savedUserInfo == getItem(status.ls, "userInfo")
      done == [a EXCEPT !.loading = FALSE]
  IN IF status.ret /\ Truthy(savedUserInfo) /\ JSONParse(savedUserInfo).ok
     THEN [ls |-> status.ls,
           app |-> [done EXCEPT !.userInfo = JSONParse(savedUserInfo).value,
                                !.isLoggedIn = TRUE],
           status |-> status]
     ELSE [ls |-> status.ls, app |-> done, status |-> status]

\* initializeApp: storage and React state after the try / catch / finally
InitializeAppResult(ls, time, a) ==
  LET status == checkLoginStatus(ls, time)
      savedUserInfo == getItem(status.ls, "userInfo")
      done == [a EXCEPT !.loading = FALSE]
  IN IF status.ret /\ Truthy(savedUserInfo)
     THEN IF JSONParse(savedUserInfo).ok
          THEN [ls |-> status.ls,
                app |-> [done EXCEPT !.userInfo = JSONParse(savedUserInfo).value,
                                     !.isLoggedIn = TRUE],
                status |-> status]
          ELSE [ls |-> clear(status.ls), app |-> done, status |-> status]
     ELSE [ls |-> LoggedOutStorage(status.ls), app |-> done, status |-> status]

\* the effect depends on [isLoggedIn]: when a handler changed it, React runs
\* initializeApp once more after the render, before the next event
EffectRerun(ls, time, before, after) ==
  IF after.isLoggedIn # before.isLoggedIn
  THEN [ls |-> InitializeAppResult(ls, time, after).ls,
        app |-> InitializeAppResult(ls, time, after).app]
  ELSE [ls |-> ls, app |-> after]

\* the effect of App after mounting: initializeApp, then the listener is registered
InitializeApp ==
  /\ app.loading
  /\ LET r == InitializeAppResult(localStorage, now, app)
         settled == EffectRerun(r.ls, now, app, r.app)
     IN /\ localStorage' = settled.ls
        /\ app' = settled.app
        /\ last' = Step("initializeApp", NoCall, Detection(r.status.expired),
                        Fulfilled(Bool(r.status.ret)), NoEffects)
  /\ UNCHANGED <<now, ticks, inflight, login>>

\* a logout that forgets setUserInfo(null)
HandleLogoutResultKeepingUser(ls, a) ==
  [ls |-> LoggedOutStorage(ls), app |-> [a EXCEPT !.isLoggedIn = FALSE]]

\* handleLogout
HandleLogoutResult(ls, a) ==
  [ls |-> LoggedOutStorage(ls), app |-> [a EXCEPT !.isLoggedIn = FALSE, !.userInfo = Null]]

\* handleVisibilityChange when the page becomes visible
HandleVisibilityChange ==
  /\ ~app.loading
  /\ LET status == checkLoginStatus(localStorage, now)
         out == HandleLogoutResult(status.ls, app)
         settled == EffectRerun(out.ls, now, app, out.app)
     IN /\ last' = Step("visibilitychange", NoCall, Detection(status.expired),
                        Fulfilled(Bool(status.ret)),
                        [NoEffects EXCEPT !.alert = ~status.ret /\ app.isLoggedIn])
        /\ IF ~status.ret /\ app.isLoggedIn
           THEN localStorage' = settled.ls /\ app' = settled.app
           ELSE localStorage' = status.ls /\ app' = app
  /\ UNCHANGED <<now, ticks, inflight, login>>

\* the logout button of the dashboard
HandleLogout ==
  /\ DashboardShown
  /\ LET out == HandleLogoutResult(localStorage, app)
         settled == EffectRerun(out.ls, now, app, out.app)
     IN localStorage' = settled.ls /\ app' = settled.app
  /\ last' = Step("logout", NoCall, NoOutcome, NoResult, [NoEffects EXCEPT !.alert = TRUE])
  /\ UNCHANGED <<now, ticks, inflight, login>>

\* a direct call of the exported checkLoginStatus
CheckLoginStatus ==
  /\ LET status == checkLoginStatus(localStorage, now)
     IN /\ localStorage' = status.ls
        /\ last' = Step("checkLoginStatus", NoCall, Detection(status.expired),
                        Fulfilled(Bool(status.ret)), NoEffects)
  /\ UNCHANGED <<now, ticks, inflight, app, login>>

(* ------------------------------ login --------------------------------- *)

\* handleLogin on a form that fails validation: an error text, no request
HandleLoginInvalid ==
  /\ LoginViewShown /\ ~login.loading
  /\ \E f \in Forms :
       LET error == ValidationError(f.loginMethod, f.phone, f.email, f.password)
       IN /\ error # Undefined
          /\ last' = Step("handleLogin", NoCall, NoOutcome, NoResult,
                          [NoEffects EXCEPT !.error = error])
  /\ UNCHANGED <<now, ticks, localStorage, inflight, app, login>>

\* handleLogin on a valid form: loginUser sends POST /user/login
HandleLogin ==
  /\ LoginViewShown /\ ~login.loading
  /\ CanSend
  /\ \E f \in Forms : ValidationError(f.loginMethod, f.phone, f.email, f.password) = Undefined
  /\ LET call == [config |-> ApiRequestInterceptor(localStorage,
                                 Config("api", "login", "post", "/user/login")),
                  issuedAt |-> now]
     IN /\ inflight' = Send(call)
        /\ last' = Step("send", call, NoOutcome, NoResult, NoEffects)
  /\ login' = [loading |-> TRUE]
  /\ UNCHANGED <<now, ticks, localStorage, app>>

\* the login request is answered: response interceptor, loginUser, handleLogin
LoginResponse ==
  \E call \in BagToSet(inflight) : \E o \in Outcomes(call.config) :
    \E retry \in (IF o.kind = "noresponse" THEN BOOLEAN ELSE {FALSE}) :
      /\ call.config.op = "login"
      /\ LET answered == ApiResponse(localStorage, o, retry)
             returned == LoginUserResult(answered.ls, now, answered.settlement)
             handled == HandleLoginResult(returned.ls, returned.ret)
         IN /\ localStorage' = handled.ls
            /\ last' = Step("login", NoCall, o, Fulfilled(returned.ret),
                            [answered.effects EXCEPT
                               !.alert = @ \/ handled.reload,
                               !.reload = @ \/ handled.reload,
                               !.error = handled.error])
      /\ login' = [loading |-> FALSE]
      /\ inflight' = Answer(call)
      /\ UNCHANGED <<now, ticks, app>>

(* ------------------------- other auth operations ---------------------- *)

\* getUserInfo: fails at once when the stored expiration has passed, else GET /user/info
GetUserInfo ==
  /\ IF Expired(localStorage, now)
     THEN /\ last' = Step("getUserInfo", NoCall, ExpiryDetected,
                          Fulfilled(GetUserInfoExpiredResult), NoEffects)
          /\ UNCHANGED inflight
     ELSE /\ CanSend
          /\ LET call == [config |-> ApiRequestInterceptor(localStorage,
                                        Config("api", "getUserInfo", "get", "/user/info")),
                          issuedAt |-> now]
             IN /\ inflight' = Send(call)
                /\ last' = Step("send", call, NoOutcome, NoResult, NoEffects)
  /\ UNCHANGED <<now, ticks, localStorage, app, login>>

\* registerUser, sendVerificationCode, resetPassword: one POST each
PostOperation ==
  /\ CanSend
  /\ \E op \in PostOps :
       LET call == [config |-> ApiRequestInterceptor(localStorage,
                                  Config("api", op, "post", PostUrl(op))),
                    issuedAt |-> now]
       IN /\ inflight' = Send(call)
          /\ last' = Step("send", call, NoOutcome, NoResult, NoEffects)
  /\ UNCHANGED <<now, ticks, localStorage, app, login>>

\* a request of getUserInfo or of a PostOperation is answered
OperationResponse ==
  \E call \in BagToSet(inflight) : \E o \in Outcomes(call.config) :
    \E retry \in (IF o.kind = "noresponse" THEN BOOLEAN ELSE {FALSE}) :
      /\ call.config.client = "api" /\ call.config.op # "login"
      /\ LET answered == ApiResponse(localStorage, o, retry)
         IN /\ localStorage' = answered.ls
            /\ last' = Step(call.config.op, NoCall, o,
                            Fulfilled(AuthResult(answered.settlement,
                                                 OkMessage(call.config.op),
                                                 FailMessage(call.config.op))),
                            answered.effects)
      /\ inflight' = Answer(call)
      /\ UNCHANGED <<now, ticks, app, login>>

(* ------------------------------ request.js ---------------------------- *)

\* get, post, put, del or upload is called while fewer than limit requests are pending
RequestWithin(limit) ==
  /\ BagCardinality(inflight) < limit
  /\ \E m \in RequestMethods :
       LET call == [config |-> RequestRequestInterceptor(localStorage, now,
                                  Config("request", m, HttpMethod(m), "/resource")),
                    issuedAt |-> now]
       IN /\ inflight' = Send(call)
          /\ last' = Step("send", call, NoOutcome, NoResult, NoEffects)
  /\ UNCHANGED <<now, ticks, localStorage, app, login>>

Request == RequestWithin(MaxInflight)

\* a request of request.js is answered: the caller's promise settles
RequestAnswered ==
  \E call \in BagToSet(inflight) : \E o \in Outcomes(call.config) :
    /\ call.config.client = "request"
    /\ LET answered == RequestResponse(localStorage, o)
       IN /\ localStorage' = answered.ls
          /\ last' = Step("request", NoCall, o, answered.settlement, answered.effects)
    /\ inflight' = Answer(call)
    /\ UNCHANGED <<now, ticks, app, login>>

(* ------------------------------ specification ------------------------- *)

Next ==
  \/ Tick
  \/ PageLoad
  \/ InitializeApp
  \/ HandleVisibilityChange
  \/ HandleLogout
  \/ CheckLoginStatus
  \/ HandleLoginInvalid
  \/ HandleLogin
  \/ LoginResponse
  \/ GetUserInfo
  \/ PostOperation
  \/ OperationResponse
  \/ Request
  \/ RequestAnswered

Spec == Init /\ [][Next]_vars

(* ----------------- checkLoginStatus on any store content -------------- *)

(* localStorage is shared by every tab of the origin and outlives the page, so
   checkLoginStatus may find any combination of the three entries *)

StoredTokens == {Null, Str(<<>>), Str(<<"t1">>)}

StoredExpirations == {Null, Str(ToStr(Num(1))), Str(ToStr(Num(TokenLifetime)))}

StoredUserInfos == {Null, JSONStringify(UserObject)}

Stores ==
  {[EmptyStorage EXCEPT !["userToken"] = tk, !["tokenExpiration"] = ex, !["userInfo"] = ui] :
     tk \in StoredTokens, ex \in StoredExpirations, ui \in StoredUserInfos}

InitStore ==
  /\ now = 0
  /\ ticks = 0
  /\ localStorage \in Stores
  /\ inflight = EmptyBag
  /\ app = AppMounted
  /\ login = LoginMounted
  /\ last = Step("load", NoCall, NoOutcome, NoResult, NoEffects)

NextStore ==
  \/ Tick
  \/ CheckLoginStatus

SpecStore == InitStore /\ [][NextStore]_vars

(* ------------------- start-up on any store content ------------------- *)

\* what the 'userInfo' entry may hold: nothing, JSON, or text JSON.parse rejects
StartUserInfos == StoredUserInfos \cup {Str(<<"null">>), Str(<<"undefined">>)}

StartStores ==
  {[EmptyStorage EXCEPT !["userToken"] = tk, !["tokenExpiration"] = ex, !["userInfo"] = ui] :
     tk \in StoredTokens, ex \in StoredExpirations, ui \in StartUserInfos}

InitStart ==
  /\ now = 0
  /\ ticks = 0
  /\ localStorage \in StartStores
  /\ inflight = EmptyBag
  /\ app = AppMounted
  /\ login = LoginMounted
  /\ last = Step("load", NoCall, NoOutcome, NoResult, NoEffects)

NextStart ==
  \/ Tick
  \/ PageLoad
  \/ InitializeApp

SpecStart == InitStart /\ [][NextStart]_vars

(* ---------------------- a burst of request.js calls ------------------- *)

\* number of requests of one burst
MaxBurst == 2

\* get, post, put, del or upload called while another request may be pending
RequestBurst == RequestWithin(MaxBurst)

NextBurst ==
  \/ Tick
  \/ RequestBurst
  \/ RequestAnswered

SpecBurst == Init /\ [][NextBurst]_vars

(* ------------------------------ properties ---------------------------- *)

\* the session is absent from the store: no token, no expiration, no user info
SessionEmpty(ls) ==
  /\ getItem(ls, "userToken") = Null
  /\ getItem(ls, "tokenExpiration") = Null
  /\ getItem(ls, "userInfo") = Null

\* the latest step handled a response of transport status st
AnsweredStatus(st) == last.outcome.kind = "response" /\ last.outcome.status = st

\* the recorded expiration as a number, NaN when none is recorded
RecordedExpiration(ls) ==
  IF getItem(ls, "tokenExpiration") = Null THEN NaN
  ELSE ParseInt(getItem(ls, "tokenExpiration"))

\* C1: after either client has handled a response of status 401, the token, the
\* token expiration and the user info are all absent from the store.
C1_UnauthorizedEmptiesSession ==
  AnsweredStatus(401) => SessionEmpty(localStorage)

\* C2: in every state reached from the empty store, a stored token implies a stored
\* token expiration.
C2_TokenImpliesExpiration ==
  getItem(localStorage, "userToken") # Null
     => getItem(localStorage, "tokenExpiration") # Null

\* C3 as stated: checkLoginStatus returns true iff a non-empty token is stored and either
\* no expiration is recorded or now < expiration; so it returns false at now = expiration.
C3_ValidOnlyBeforeExpiration ==
  [][last'.op = "checkLoginStatus" =>
       (last'.result.value = Bool(TRUE) <=>
          /\ Truthy(getItem(localStorage, "userToken"))
          /\ \/ getItem(localStorage, "tokenExpiration") = Null
             \/ Greater(RecordedExpiration(localStorage), Num(now)))]_vars

\* C3 amended: checkLoginStatus returns true iff a non-empty token is stored and either
\* no expiration is recorded or now <= expiration; at now = expiration it returns true.
C3_ValidUntilExpiration ==
  [][last'.op = "checkLoginStatus" =>
       (last'.result.value = Bool(TRUE) <=>
          /\ Truthy(getItem(localStorage, "userToken"))
          /\ \/ getItem(localStorage, "tokenExpiration") = Null
             \/ ~Greater(Num(now), RecordedExpiration(localStorage)))]_vars

\* checkLoginStatus has answered true at the very millisecond of the expiration
C3_Witness ==
  /\ last.op = "checkLoginStatus"
  /\ last.result.value = Bool(TRUE)
  /\ RecordedExpiration(localStorage) = Num(now)

\* C4 as stated: for every store content whose recorded expiration is in the past, with
\* or without a token, checkLoginStatus returns false and leaves the session absent.
C4_PastExpirationEmptiesSession ==
  [][(last'.op = "checkLoginStatus" /\ Greater(Num(now), RecordedExpiration(localStorage)))
       => (last'.result.value = Bool(FALSE) /\ SessionEmpty(localStorage'))]_vars

\* C4 amended: for every store content holding a non-empty token and a recorded
\* expiration in the past, checkLoginStatus returns false and leaves the session absent;
\* without a token it returns false and leaves the store as it found it.
C4_ExpiredTokenEmptiesSession ==
  [][last'.op = "checkLoginStatus" /\ Greater(Num(now), RecordedExpiration(localStorage))
       => /\ last'.result.value = Bool(FALSE)
          /\ IF Truthy(getItem(localStorage, "userToken"))
             THEN SessionEmpty(localStorage')
             ELSE localStorage' = localStorage]_vars

\* checkLoginStatus has found the stored token expired, answered false and cleared
C4_Witness ==
  /\ last.op = "checkLoginStatus"
  /\ last.outcome = ExpiryDetected
  /\ last.result.value = Bool(FALSE)
  /\ SessionEmpty(localStorage)

\* C5: whenever an operation has detected that the stored expiration passed, the token,
\* the expiration and the user info are all absent afterwards.
C5_ExpiryDetectionEmptiesSession ==
  last.outcome = ExpiryDetected => SessionEmpty(localStorage)

\* the step is a call of getUserInfo: it failed on the spot or it sent its request
GetUserInfoCalled(step) ==
  \/ step.op = "getUserInfo" /\ step.outcome = ExpiryDetected
  \/ step.op = "send" /\ step.call.config.op = "getUserInfo"

\* C6: getUserInfo called while the stored expiration is less than the current time
\* returns a result with success false and issues no network request.
C6_ExpiredProfileFailsFast ==
  [][(GetUserInfoCalled(last') /\ Greater(Num(now), RecordedExpiration(localStorage)))
       => /\ last'.result.settled = "fulfilled"
          /\ last'.result.value.success = Bool(FALSE)
          /\ inflight' = inflight]_vars

\* getUserInfo has failed on the spot on an expiration that lies in the past
C6_Witness ==
  /\ last.op = "getUserInfo"
  /\ last.outcome = ExpiryDetected
  /\ last.result.value.success = Bool(FALSE)
  /\ Greater(Num(now), RecordedExpiration(localStorage))
  /\ inflight = EmptyBag

\* the body of a 2xx response carries a non-empty token in its data
CarriesToken(o) == Is2xx(o) /\ Truthy(Prop(Prop(o.data, "data"), "token"))

\* C7 as stated: a login issued at time T whose response carries a token persists the
\* expiration T + 86400000, and a login that does not succeed persists no expiration.
C7_ExpirationFromIssueTime ==
  [][\A call \in BagToSet(inflight) :
       (call.config.op = "login" /\ last'.op = "login")
         => /\ CarriesToken(last'.outcome)
                 => RecordedExpiration(localStorage') = Num(call.issuedAt + 86400000)
            /\ ~Truthy(last'.result.value.success)
                 => getItem(localStorage', "tokenExpiration")
                      = getItem(localStorage, "tokenExpiration")]_vars

\* C7 amended: a login whose 2xx response carries a non-empty token persists the
\* expiration R + 86400000, R being the time at which the response is handled; a login
\* for which loginUser returns success false leaves the stored expiration as it was.
C7_ExpirationFromResponseTime ==
  [][last'.op = "login"
       => /\ CarriesToken(last'.outcome)
               => getItem(localStorage', "tokenExpiration") = Str(ToDigits(now + 86400000))
          /\ ~Truthy(last'.result.value.success)
               => getItem(localStorage', "tokenExpiration")
                    = getItem(localStorage, "tokenExpiration")]_vars

\* a login answered with a token after the clock moved: the expiration counts from now
C7_Witness ==
  /\ last.op = "login"
  /\ CarriesToken(last.outcome)
  /\ now > 0
  /\ RecordedExpiration(localStorage) = Num(now + 86400000)

\* the body of a 2xx response reports non-success
ReportsFailure(o) ==
  /\ Is2xx(o)
  /\ Prop(o.data, "success") = Bool(FALSE)
  /\ Prop(o.data, "code") # Num(200)

\* what the caller of the latest step got is a failure with the given message: a
\* rejection by request.js, an object with success false by an auth operation
DeliveredAsFailure(message) ==
  IF last.op = "request"
  THEN last.result.settled = "rejected" /\ last.result.value.message = message
  ELSE /\ last.result.settled = "fulfilled"
       /\ last.result.value.success = Bool(FALSE)
       /\ last.result.value.message = message

\* C8: a 2xx response whose body reports non-success reaches the caller as a failure
\* carrying the body's message, in both clients and in every auth operation.
C8_BodyFailureIsDelivered ==
  (ReportsFailure(last.outcome) /\ Truthy(Prop(last.outcome.data, "message")))
     => DeliveredAsFailure(last.outcome.data.message)

\* C9: two GET requests with the same url and params issued within the same
\* millisecond have different query signatures.
C9_SameMillisecondGetsDiffer ==
  \A c1 \in BagToSet(inflight) : \A c2 \in BagToSet(inflight) :
     (/\ c1.config.method = "get" /\ c2.config.method = "get"
      /\ c1.config.client = c2.config.client
      /\ c1.config.url = c2.config.url
      /\ c1.issuedAt = c2.issuedAt
      /\ (c1 # c2 \/ CopiesIn(c1, inflight) >= 2))
       => QuerySignature(c1.config) # QuerySignature(c2.config)

\* the Authorization header the store calls for
BearerOf(ls) ==
  IF Truthy(getItem(ls, "userToken"))
  THEN Str(<<"Bearer ">> \o getItem(ls, "userToken").s)
  ELSE Undefined

\* C10: a request of either client issued while a non-empty token is stored carries
\* Authorization: Bearer <token>; one issued with no stored token carries no such header.
C10_RequestsCarryTheToken ==
  last.op = "send" => last.call.config.headers.Authorization = BearerOf(localStorage)

\* the steps in which an auth operation returns to its caller
AuthOps == {"login", "getUserInfo"} \cup PostOps

\* the transport failed: an error status, or no response at all
TransportFailed(o) == o.kind \in {"response", "noresponse"} /\ ~Is2xx(o)

\* C11: every auth operation resolves, for every transport outcome and every body, to
\* an object with a boolean success field, never rejecting; success is false whenever
\* the transport failed.
C11_AuthOperationsAlwaysResolve ==
  last.op \in AuthOps
     => /\ last.result.settled = "fulfilled"
        /\ last.result.value.t = "object"
        /\ last.result.value.success \in {Bool(TRUE), Bool(FALSE)}
        /\ TransportFailed(last.outcome) => last.result.value.success = Bool(FALSE)

\* loginUser has resolved to success false on a request that got no response
C11_Witness ==
  /\ last.op = "login"
  /\ last.outcome.kind = "noresponse"
  /\ last.result.settled = "fulfilled"
  /\ last.result.value.success = Bool(FALSE)

\* the three entries of the session: token, expiration, user info
Session(ls) ==
  <<getItem(ls, "userToken"), getItem(ls, "tokenExpiration"), getItem(ls, "userInfo")>>

\* the transport reported something other than a 401 response
NotUnauthorized(o) ==
  /\ o.kind \in {"response", "noresponse"}
  /\ ~(o.kind = "response" /\ o.status = 401)

\* C12: in both clients, handling a request never changes the session, and handling a
\* response changes it only when the status is 401: on 2xx, 403, 404, 500, any other
\* status, network and timeout failures, token, expiration and user info are unchanged.
\* (In a login step the interceptor is followed by loginUser and handleLogin, so there
\* the interceptor is taken on its own.)
C12_ClientsTouchSessionOnlyOn401 ==
  [][/\ last'.op = "send" => Session(localStorage') = Session(localStorage)
     /\ NotUnauthorized(last'.outcome)
          => IF last'.op = "login"
             THEN \A retry \in BOOLEAN :
                    Session(ApiResponse(localStorage, last'.outcome, retry).ls)
                       = Session(localStorage)
             ELSE Session(localStorage') = Session(localStorage)]_vars

\* getUserInfo was answered 500 while a whole session is stored, and it still is
C12_Witness ==
  /\ last.op = "getUserInfo"
  /\ AnsweredStatus(500)
  /\ Truthy(getItem(localStorage, "userToken"))
  /\ getItem(localStorage, "tokenExpiration") # Null
  /\ getItem(localStorage, "userInfo") # Null

\* the class the claim gives a failure, from what the transport reports
ClaimedClass(o) ==
  IF o.kind = "noresponse"
  THEN IF o.code = Str(<<"ECONNABORTED">>) THEN "timeout" ELSE "network"
  ELSE CASE o.status = 401 -> "unauthorized"
         [] o.status = 403 -> "forbidden"
         [] o.status = 404 -> "not found"
         [] o.status = 500 -> "server error"
         [] OTHER -> "other"

\* the class a delivered message stands for, in the wording of either client
MessageClass(message) ==
  CASE message \in {Str(<<"login expired">>), Str(<<"unauthorized, log in again">>)}
         -> "unauthorized"
    [] message \in {Str(<<"no permission">>), Str(<<"access denied">>)} -> "forbidden"
    [] message \in {Str(<<"resource does not exist">>),
                    Str(<<"request address does not exist">>)} -> "not found"
    [] message = Str(<<"internal server error">>) -> "server error"
    [] message = Str(<<"request timed out">>) -> "timeout"
    [] message \in {Str(<<"network connection failed">>), Str(<<"network error">>)}
         -> "network"
    [] OTHER -> "other"

\* C13: in both clients a failure is classified by what the transport reports: 401
\* unauthorized, 403 forbidden, 404 not found, 500 server error, any other status the
\* body's message or a generic failure, no response the network error, except that the
\* timeout code gives the request-timed-out error.
C13_FailuresAreClassified ==
  TransportFailed(last.outcome)
     => /\ MessageClass(last.result.value.message) = ClaimedClass(last.outcome)
        /\ (ClaimedClass(last.outcome) = "other" /\ Truthy(Prop(last.outcome.data, "message")))
              => last.result.value.message = last.outcome.data.message

\* C14: a call causes at most one network request and none is ever retried: only the
\* step that issues a call adds a request, exactly one; the step that handles its
\* outcome takes that request away, adds none and settles the caller's promise in
\* that same step, also when the user accepts the retry that api.js offers.
C14_OneRequestOneDelivery ==
  [][/\ last'.op = "send" => inflight' = inflight (+) SetToBag({last'.call})
     /\ last'.outcome.kind \in {"response", "noresponse"}
          => /\ \E call \in BagToSet(inflight) : inflight' = inflight (-) SetToBag({call})
             /\ last'.result.settled \in {"fulfilled", "rejected"}
     /\ (last'.op # "send" /\ last'.outcome.kind \notin {"response", "noresponse"})
          => inflight' \in {inflight, EmptyBag}]_vars

\* an auth operation failed for want of a response, the user accepted the retry, and
\* the failure reached the caller with no request pending
C14_Witness ==
  /\ last.op \in AuthOps
  /\ last.outcome.kind = "noresponse"
  /\ last.effects.confirm /\ last.effects.reload
  /\ last.result.settled = "fulfilled"
  /\ last.result.value.success = Bool(FALSE)
  /\ inflight = EmptyBag

\* a user info entry is stored that JSON.parse accepts
ParseableUserInfo(ls) ==
  Truthy(getItem(ls, "userInfo")) /\ JSONParse(getItem(ls, "userInfo")).ok

\* C15: after start-up, for every store content: the dashboard is shown only if
\* checkLoginStatus returned true and a parseable user info entry is stored; in every
\* other case token, expiration and user info are absent and the login view is shown;
\* loading is false afterwards in every case.
C15_StartUpShowsTheRightView ==
  [][last'.op = "initializeApp"
       => /\ ~app'.loading
          /\ app'.isLoggedIn
               => last'.result.value = Bool(TRUE) /\ ParseableUserInfo(localStorage)
          /\ ~(last'.result.value = Bool(TRUE) /\ ParseableUserInfo(localStorage))
               => SessionEmpty(localStorage') /\ ~app'.isLoggedIn]_vars

\* start-up found a valid token beside user info that does not parse: login view,
\* nothing left in the store
C15_Witness ==
  /\ last.op = "initializeApp"
  /\ last.result.value = Bool(TRUE)
  /\ ~app.loading /\ ~app.isLoggedIn
  /\ SessionEmpty(localStorage)

\* the session is still valid: a non-empty token, and no expiration that has passed
SessionValid(ls, time) ==
  /\ Truthy(getItem(ls, "userToken"))
  /\ \/ getItem(ls, "tokenExpiration") = Null
     \/ ~Greater(Num(time), RecordedExpiration(ls))

\* C16: when the page becomes visible while the dashboard is shown and the session is
\* no longer valid, the shell logs out: isLoggedIn is false, the user info state is
\* null, and token, expiration and user info are absent from the store; when the
\* session is still valid the event changes nothing.
C16_VisibilityLogsOutInvalidSession ==
  [][(last'.op = "visibilitychange" /\ app.isLoggedIn)
       => IF SessionValid(localStorage, now)
          THEN /\ localStorage' = localStorage
               /\ app' = app
               /\ login' = login
               /\ inflight' = inflight
          ELSE /\ ~app'.isLoggedIn
               /\ app'.userInfo = Null
               /\ SessionEmpty(localStorage')]_vars

\* the page became visible on a dashboard whose session was gone, and the shell
\* logged out
C16_Witness ==
  /\ last.op = "visibilitychange"
  /\ last.result.value = Bool(FALSE)
  /\ last.effects.alert
  /\ ~app.isLoggedIn
  /\ app.userInfo = Null
  /\ SessionEmpty(localStorage)

\* C17: a login attempt whose request fails with any outcome other than a 401 response
\* leaves the store exactly as it was; the token and the user info are written only
\* when loginUser returns success true, the expiration only when the response carries
\* a token.  (A change of the token or user info entry counts as a write unless it is
\* the removal the 401 handler makes.)
C17_FailedLoginLeavesTheStore ==
  [][last'.op = "login"
       => /\ (TransportFailed(last'.outcome) /\ NotUnauthorized(last'.outcome))
               => localStorage' = localStorage
          /\ (\/ getItem(localStorage', "userToken") # getItem(localStorage, "userToken")
              \/ getItem(localStorage', "userInfo") # getItem(localStorage, "userInfo"))
               => \/ last'.result.value.success = Bool(TRUE)
                  \/ AnsweredStatus(401)'
          /\ getItem(localStorage', "tokenExpiration") # getItem(localStorage, "tokenExpiration")
               => CarriesToken(last'.outcome)]_vars

\* a login was answered 500 while an earlier session is stored, and it is still there
C17_Witness ==
  /\ last.op = "login"
  /\ AnsweredStatus(500)
  /\ last.result.value.success = Bool(FALSE)
  /\ Truthy(getItem(localStorage, "userToken"))
  /\ getItem(localStorage, "tokenExpiration") # Null

====
